---- MODULE Spec2Model ----
(***************************************************************************)
(* The layout engine of the SKU image combiner (src/app.py): the three     *)
(* layouts combine_side_by_side, combine_overlay_equal and                 *)
(* combine_overlay_hero, the canvas builder make_canvas and the            *)
(* compositing primitive paste_with_alpha.                                 *)
(*                                                                         *)
(* Python floats are modelled by exact rationals <<numerator, denominator>>*)
(* and int(dimension * scale) by IntOfProduct, which yields the exact      *)
(* truncation and, when the product is a whole number computed from a      *)
(* scale that binary floating point cannot represent, also the value one   *)
(* below (49 * (1 / 49.0) is 0.9999999999999999 in Python).                *)
(***************************************************************************)
EXTENDS Integers, Sequences, FiniteSets, TLC

\* ---------------------------------------------------------------- bounds

\* Geometry: source images have sides 0 .. MaxDim, or the long side LongSide.
MaxDim == 3
LongSide == 40
\* Compositing: source images have sides 1 .. MaxPixelDim.
MaxPixelDim == 2

Dims == (0 .. MaxDim) \cup {LongSide}
SmallDims == 1 .. MaxPixelDim

\* Canvas sizes (the "quality" argument of combine_images).
CanvasSizes == {8, 12, 25}
SmallCanvasSizes == {8, 12}
\* Slider values: the gap slider runs 1..15, the padding slider 2..12.
Gaps == {1, 15}
Paddings == {2, 5, 12}

\* ------------------------------------------------------------- constants

BgModes == {"White", "Black", "Transparent PNG"}
LayoutModes == {"Side by side", "Overlay (equal)", "Overlay (hero + secondary)"}
HeroChoices == {"Image 1", "Image 2"}
\* The alpha channel of an image: fully opaque, left half fully transparent,
\* half transparent everywhere.
Masks == {"opaque", "leftclear", "half"}

RED == <<255, 0, 0>>
BLUE == <<0, 0, 255>>

\* ------------------------------------------------------------ arithmetic

Max(a, b) == IF a >= b THEN a ELSE b

RECURSIVE GCD(_, _)
GCD(a, b) == IF b = 0 THEN a ELSE GCD(b, a % b)

RECURSIVE IsPowerOfTwo(_)
IsPowerOfTwo(n) == IF n = 1 THEN TRUE
                   ELSE IF n % 2 = 1 THEN FALSE ELSE IsPowerOfTwo(n \div 2)

\* A float a / float(b), b > 0, as the rational <<a, b>>.
Frac(a, b) == <<a, b>>
\* Python's min(a, b) on floats: a unless b is smaller.
FracMin(a, b) == IF b[1] * a[2] < a[1] * b[2] THEN b ELSE a
\* The float is not the exact quotient: the reduced denominator is no power of two.
Inexact(s) == s[1] # 0 /\ ~IsPowerOfTwo(s[2] \div GCD(s[1], s[2]))

\* int(canvas_size * (percent / 100.0)), non-negative operands.
IntOfPercent(size, percent) == (size * percent) \div 100
\* int(n * ratio) for a ratio constant, non-negative operands.
IntOfRatio(n, ratio) == (n * ratio[1]) \div ratio[2]
\* Python's max(a, b) on floats: a unless b is greater.
FracMax(a, b) == IF b[1] * a[2] > a[1] * b[2] THEN b ELSE a

\* The values int(d * s) can take for a dimension d >= 0 and a scale s >= 0.
IntOfProduct(d, s) ==
    LET exact == (d * s[1]) \div s[2]
    IN  IF (d * s[1]) % s[2] = 0 /\ exact >= 1 /\ Inexact(s)
        THEN {exact - 1, exact}
        ELSE {exact}

\* Overlay parameters: distance between centres as a share of the inner width,
\* and the secondary's scale as a share of the hero's.
OVERLAY_OFFSET_RATIO == Frac(16, 100)
HERO_SCALE_FACTOR == Frac(75, 100)

\* ---------------------------------------------------------------- state

VARIABLES
    pc,                   \* "ready": inputs gathered; "done": combine_images has run
    layout_mode, bg_mode, hero_choice,
    quality, gap_ratio, outer_padding_ratio,
    img1, img2,           \* the two source rasters
    status,               \* "none", "ok", "ZeroDivisionError", "ValueError"
    geo,                  \* the local variables of the layout function that ran
    result                \* the canvas returned by combine_images

inputs == <<layout_mode, bg_mode, hero_choice, quality, gap_ratio,
            outer_padding_ratio, img1, img2>>
vars == <<pc, layout_mode, bg_mode, hero_choice, quality, gap_ratio,
          outer_padding_ratio, img1, img2, status, geo, result>>

\* A raster loaded by load_image_from_file_or_url: always converted to RGBA.
\* Its pixels are colour everywhere; its alpha channel is given by mask.
Image(w, h, colour, mask) ==
    [size |-> <<w, h>>, mode |-> "RGBA", colour |-> colour, mask |-> mask]

\* No local variable was computed.
NoGeo == [computed |-> FALSE]
NoCanvas == [mode |-> "none", size |-> 0, px |-> <<>>]

\* ---------------------------------------------------------------- rasters

\* The alpha of pixel (i, j) of a raster.
Alpha(img, i, j) ==
    CASE img.mask = "opaque" -> 255
      [] img.mask = "leftclear" -> IF 2 * i < img.size[1] THEN 0 ELSE 255
      [] OTHER -> 128

\* Pixel (i, j) of an RGBA raster.
GetPixel(img, i, j) == img.colour \o <<Alpha(img, i, j)>>

\* Image.resize((new_w, new_h), LANCZOS) on sizes >= 1: a raster of the target
\* size. Resampling a uniformly coloured raster keeps its colour; its alpha
\* channel keeps its shape at the new size.
resize(img, new_w, new_h) == [img EXCEPT !.size = <<new_w, new_h>>]

Pixels(size) == (0 .. size - 1) \X (0 .. size - 1)

make_canvas(mode, canvas_size) ==
    IF mode = "White"
    THEN [mode |-> "RGB", size |-> canvas_size,
          px |-> [p \in Pixels(canvas_size) |-> <<255, 255, 255>>]]
    ELSE IF mode = "Black"
    THEN [mode |-> "RGB", size |-> canvas_size,
          px |-> [p \in Pixels(canvas_size) |-> <<0, 0, 0>>]]
    ELSE [mode |-> "RGBA", size |-> canvas_size,
          px |-> [p \in Pixels(canvas_size) |-> <<255, 255, 255, 0>>]]

\* Pillow's rounding division by 255 and its 8-bit blend of in1 towards in2.
DIV255(a) == LET tmp == a + 128 IN ((tmp \div 256) + tmp) \div 256
BLEND8(mask, in1, in2) == DIV255(in1 * (255 - mask) + in2 * mask)
\* Every band of the destination pixel blended towards the source pixel.
BlendPixel(mask, dst, src) == [k \in DOMAIN dst |-> BLEND8(mask, dst[k], src[k])]

\* Canvas pixel p lies under the raster of size <<w, h>> pasted at (x, y);
\* Image.paste clips what falls outside the canvas.
Covered(p, size, x, y) ==
    /\ x <= p[1] /\ p[1] < x + size[1]
    /\ y <= p[2] /\ p[2] < y + size[2]

paste_with_alpha(bg, fg, x, y) ==
    IF fg.mode = "RGBA" /\ bg.mode = "RGBA"
    THEN \* bg.paste(fg, (x, y), fg): fg's alpha is the blend mask of all four bands
         [bg EXCEPT !.px = [p \in DOMAIN bg.px |->
            IF Covered(p, fg.size, x, y)
            THEN BlendPixel(Alpha(fg, p[1] - x, p[2] - y), bg.px[p],
                            GetPixel(fg, p[1] - x, p[2] - y))
            ELSE bg.px[p]]]
    ELSE IF fg.mode = "RGBA" /\ bg.mode = "RGB"
    THEN \* tmp: fg flattened onto the colour of canvas pixel (0, 0); then an
         \* opaque overwrite of the whole rectangle
         LET fill == bg.px[<<0, 0>>]
             tmp(i, j) == BlendPixel(Alpha(fg, i, j), fill, GetPixel(fg, i, j))
         IN  [bg EXCEPT !.px = [p \in DOMAIN bg.px |->
                IF Covered(p, fg.size, x, y)
                THEN tmp(p[1] - x, p[2] - y)
                ELSE bg.px[p]]]
    ELSE \* bg.paste(fg, (x, y)): opaque overwrite
         [bg EXCEPT !.px = [p \in DOMAIN bg.px |->
            IF Covered(p, fg.size, x, y)
            THEN [k \in DOMAIN bg.px[p] |-> GetPixel(fg, p[1] - x, p[2] - y)[k]]
            ELSE bg.px[p]]]

\* ---------------------------------------------------------------- layouts

PasteBoth_Swapped(canvas, first, x_first, y_first, second, x_second, y_second) ==
    paste_with_alpha(paste_with_alpha(canvas, second, x_second, y_second),
                     first, x_first, y_first)

\* The first raster pasted, then the second over it.
PasteBoth(canvas, first, x_first, y_first, second, x_second, y_second) ==
    paste_with_alpha(paste_with_alpha(canvas, first, x_first, y_first),
                     second, x_second, y_second)

SideScale_WidthOnly(s_height, s_width) == s_width
SideX2_NoGap(x1, new_w1, gap_px) == x1 + new_w1
OverlayWidthRoom_NoOffset(inner_width, offset_px) == inner_width
SecondaryScale_Unscaled(s_hero, k) == s_hero

\* Side by side: the uniform scale, and where image 2 starts.
SideScale(s_height, s_width) == FracMin(s_height, s_width)
SideX2(x1, new_w1, gap_px) == x1 + new_w1 + gap_px

\* Overlay (equal): the width the wider image may take.
OverlayWidthRoom(inner_width, offset_px) == inner_width - offset_px

\* Overlay (hero): s_sec = s_hero * k.
SecondaryScale(s_hero, k) == Frac(s_hero[1] * k[1], s_hero[2] * k[2])

\* The layout raised: no canvas is returned.
Raise(error, locals) ==
    /\ pc' = "done"
    /\ status' = error
    /\ geo' = locals
    /\ result' = NoCanvas
    /\ UNCHANGED inputs

Return(canvas, locals) ==
    /\ pc' = "done"
    /\ status' = "ok"
    /\ geo' = locals
    /\ result' = canvas
    /\ UNCHANGED inputs

combine_side_by_side ==
    /\ pc = "ready"
    /\ layout_mode = "Side by side"
    /\ LET canvas_size == quality
           canvas == make_canvas(bg_mode, canvas_size)
           gap_px == IntOfPercent(canvas_size, gap_ratio)
           padding_px == IntOfPercent(canvas_size, outer_padding_ratio)
           avail_width == canvas_size - 2 * padding_px - gap_px
           avail_height == canvas_size - 2 * padding_px
           w1 == img1.size[1]
           h1 == img1.size[2]
           w2 == img2.size[1]
           h2 == img2.size[2]
       IN  IF h1 = 0 \/ h2 = 0
           THEN Raise("ZeroDivisionError", NoGeo)
           ELSE
           LET s_height == FracMin(Frac(avail_height, h1), Frac(avail_height, h2))
               s_width == IF w1 + w2 > 0 THEN Frac(avail_width, w1 + w2) ELSE s_height
               s == SideScale(s_height, s_width)
           IN  \E new_w1 \in IntOfProduct(w1, s), new_h1 \in IntOfProduct(h1, s),
                  new_w2 \in IntOfProduct(w2, s), new_h2 \in IntOfProduct(h2, s) :
               LET total_width == new_w1 + gap_px + new_w2
                   x1 == (canvas_size - total_width) \div 2
                   x2 == SideX2(x1, new_w1, gap_px)
                   final_h == Max(new_h1, new_h2)
                   top_y == (canvas_size - final_h) \div 2
                   bottom_y == top_y + final_h
                   y1 == bottom_y - new_h1
                   y2 == bottom_y - new_h2
                   locals == [gap_px |-> gap_px, padding_px |-> padding_px,
                              avail_width |-> avail_width,
                              avail_height |-> avail_height, s |-> s,
                              new_w1 |-> new_w1, new_h1 |-> new_h1,
                              new_w2 |-> new_w2, new_h2 |-> new_h2,
                              x1 |-> x1, y1 |-> y1, x2 |-> x2, y2 |-> y2]
               IN  IF new_w1 < 1 \/ new_h1 < 1 \/ new_w2 < 1 \/ new_h2 < 1
                   THEN \* Image.resize: "height and width must be > 0"
                        Raise("ValueError", locals)
                   ELSE Return(PasteBoth(canvas,
                                         resize(img1, new_w1, new_h1), x1, y1,
                                         resize(img2, new_w2, new_h2), x2, y2),
                               locals)

combine_overlay_equal ==
    /\ pc = "ready"
    /\ layout_mode = "Overlay (equal)"
    /\ LET canvas_size == quality
           canvas == make_canvas(bg_mode, canvas_size)
           padding_px == IntOfPercent(canvas_size, outer_padding_ratio)
           inner_width == canvas_size - 2 * padding_px
           inner_height == canvas_size - 2 * padding_px
           w1 == img1.size[1]
           h1 == img1.size[2]
           w2 == img2.size[1]
           h2 == img2.size[2]
           offset_px == IntOfRatio(inner_width, OVERLAY_OFFSET_RATIO)
           max_h == Max(h1, h2)
           max_w == Max(w1, w2)
       IN  IF max_h = 0
           THEN Raise("ZeroDivisionError", NoGeo)
           ELSE
           LET s_height == Frac(inner_height, max_h)
               s_width == IF max_w > 0
                          THEN Frac(OverlayWidthRoom(inner_width, offset_px), max_w)
                          ELSE s_height
               s == FracMin(s_height, s_width)
           IN  \E new_w1 \in IntOfProduct(w1, s), new_h1 \in IntOfProduct(h1, s),
                  new_w2 \in IntOfProduct(w2, s), new_h2 \in IntOfProduct(h2, s) :
               LET cx == canvas_size \div 2
                   cy == canvas_size \div 2
                   x1 == cx - new_w1 \div 2 - offset_px \div 2
                   x2 == cx - new_w2 \div 2 + offset_px \div 2
                   y1 == cy - new_h1 \div 2
                   y2 == cy - new_h2 \div 2
                   locals == [padding_px |-> padding_px, offset_px |-> offset_px,
                              inner_width |-> inner_width,
                              inner_height |-> inner_height, s |-> s,
                              new_w1 |-> new_w1, new_h1 |-> new_h1,
                              new_w2 |-> new_w2, new_h2 |-> new_h2,
                              x1 |-> x1, y1 |-> y1, x2 |-> x2, y2 |-> y2]
               IN  IF new_w1 < 1 \/ new_h1 < 1 \/ new_w2 < 1 \/ new_h2 < 1
                   THEN Raise("ValueError", locals)
                   ELSE \* img1 back, img2 front
                        Return(PasteBoth(canvas,
                                         resize(img1, new_w1, new_h1), x1, y1,
                                         resize(img2, new_w2, new_h2), x2, y2),
                               locals)

combine_overlay_hero ==
    /\ pc = "ready"
    /\ layout_mode = "Overlay (hero + secondary)"
    /\ LET canvas_size == quality
           hero_is_first == (hero_choice = "Image 1")
           canvas == make_canvas(bg_mode, canvas_size)
           padding_px == IntOfPercent(canvas_size, outer_padding_ratio)
           inner_width == canvas_size - 2 * padding_px
           inner_height == canvas_size - 2 * padding_px
           hero == IF hero_is_first THEN img1 ELSE img2
           secondary == IF hero_is_first THEN img2 ELSE img1
           w_h == hero.size[1]
           h_h == hero.size[2]
           w_s == secondary.size[1]
           h_s == secondary.size[2]
           offset_px == IntOfRatio(inner_width, OVERLAY_OFFSET_RATIO)
           k == HERO_SCALE_FACTOR
           \* max(h_h, k * h_s) and w_h + k * w_s, as rationals
           height_den == FracMax(Frac(h_h, 1), Frac(k[1] * h_s, k[2]))
           width_den == Frac(w_h * k[2] + k[1] * w_s, k[2])
       IN  IF height_den[1] = 0 \/ width_den[1] = 0
           THEN Raise("ZeroDivisionError", NoGeo)
           ELSE
           LET height_constraint == Frac(inner_height * height_den[2], height_den[1])
               width_constraint ==
                   Frac((2 * inner_width - 2 * offset_px) * width_den[2], width_den[1])
               s_hero == FracMin(height_constraint, width_constraint)
               s_sec == SecondaryScale(s_hero, k)
           IN  \E new_w_h \in IntOfProduct(w_h, s_hero),
                  new_h_h \in IntOfProduct(h_h, s_hero),
                  new_w_s \in IntOfProduct(w_s, s_sec),
                  new_h_s \in IntOfProduct(h_s, s_sec) :
               LET cx == canvas_size \div 2
                   cy == canvas_size \div 2
                   x_h == cx - new_w_h \div 2 - offset_px \div 2
                   x_s == cx - new_w_s \div 2 + offset_px \div 2
                   y_h == cy - new_h_h \div 2
                   y_s == cy - new_h_s \div 2
                   locals == [padding_px |-> padding_px, offset_px |-> offset_px,
                              inner_width |-> inner_width,
                              inner_height |-> inner_height,
                              hero |-> hero, secondary |-> secondary,
                              s_hero |-> s_hero, s_sec |-> s_sec,
                              new_w_h |-> new_w_h, new_h_h |-> new_h_h,
                              new_w_s |-> new_w_s, new_h_s |-> new_h_s,
                              x_h |-> x_h, y_h |-> y_h, x_s |-> x_s, y_s |-> y_s]
               IN  IF new_w_h < 1 \/ new_h_h < 1 \/ new_w_s < 1 \/ new_h_s < 1
                   THEN Raise("ValueError", locals)
                   ELSE \* Draw hero first, then secondary on top
                        Return(PasteBoth(canvas,
                                         resize(hero, new_w_h, new_h_h), x_h, y_h,
                                         resize(secondary, new_w_s, new_h_s), x_s, y_s),
                               locals)

\* Dispatch to the layout selected by layout_mode.
combine_images ==
    \/ combine_side_by_side
    \/ combine_overlay_equal
    \/ combine_overlay_hero

\* -------------------------------------------------------- specifications

\* The inputs of one press of "Generate": the widgets' values and the two
\* loaded rasters. hero_choice is asked for only in the hero layout (else it
\* keeps its default), and the gap only matters side by side.
Gathered(dims, masks, bgs, sizes) ==
    /\ pc = "ready"
    /\ status = "none"
    /\ geo = NoGeo
    /\ result = NoCanvas
    /\ layout_mode \in LayoutModes
    /\ bg_mode \in bgs
    /\ hero_choice \in (IF layout_mode = "Overlay (hero + secondary)"
                        THEN HeroChoices ELSE {"Image 1"})
    /\ quality \in sizes
    /\ gap_ratio \in (IF layout_mode = "Side by side" THEN Gaps ELSE {5})
    /\ outer_padding_ratio \in Paddings
    /\ \E w1 \in dims, h1 \in dims, m1 \in masks : img1 = Image(w1, h1, RED, m1)
    /\ \E w2 \in dims, h2 \in dims, m2 \in masks : img2 = Image(w2, h2, BLUE, m2)

\* Geometry: every source size, opaque rasters on a white canvas.
Init == Gathered(Dims, {"opaque"}, {"White"}, CanvasSizes)

\* Compositing: small source sizes, every alpha channel and background.
InitPixels == Gathered(SmallDims, Masks, BgModes, SmallCanvasSizes)

Next == combine_images

Spec == Init /\ [][Next]_vars

SpecPixels == InitPixels /\ [][Next]_vars

\* ------------------------------------------------------------ properties

Abs(n) == IF n < 0 THEN -n ELSE n

\* Both source rasters have positive width and height.
PositiveSources ==
    /\ img1.size[1] >= 1 /\ img1.size[2] >= 1
    /\ img2.size[1] >= 1 /\ img2.size[2] >= 1

\* The layout computed its target sizes and positions (it returned, or failed
\* only in Image.resize).
Computed == pc = "done" /\ status \in {"ok", "ValueError"}

SideBySide == layout_mode = "Side by side"
OverlayEqual == layout_mode = "Overlay (equal)"
OverlayHero == layout_mode = "Overlay (hero + secondary)"

\* round(n / d) under the two usual tie rules: half up, half to even.
RoundHalfUp(n, d) == (2 * n + d) \div (2 * d)
RoundHalfEven(n, d) ==
    LET q == n \div d
        r == n % d
    IN  IF 2 * r < d THEN q
        ELSE IF 2 * r > d THEN q + 1
        ELSE IF q % 2 = 0 THEN q ELSE q + 1
Roundings(n, d) == {RoundHalfUp(n, d), RoundHalfEven(n, d)}

\* C1 (as claimed): in the hero layout the hero fits the padded inner square:
\* its resized width is at most innerWidth and its resized height at most
\* innerHeight, whatever the secondary's dimensions.
C1_HeroFitsInnerSquare ==
    (Computed /\ OverlayHero /\ PositiveSources) =>
        /\ geo.new_w_h <= geo.inner_width
        /\ geo.new_h_h <= geo.inner_height

\* C2 (as claimed): in the hero layout the rectangle the secondary is pasted
\* at lies inside the canvas on both axes.
C2_SecondaryInsideCanvas ==
    (status = "ok" /\ OverlayHero /\ PositiveSources) =>
        /\ 0 <= geo.x_s /\ geo.x_s + geo.new_w_s <= quality
        /\ 0 <= geo.y_s /\ geo.y_s + geo.new_h_s <= quality

C4_HeightsWithinRoundedPadding ==
    (Computed /\ SideBySide /\ PositiveSources) =>
        \E r \in Roundings(quality * outer_padding_ratio, 100) :
            /\ geo.new_h1 <= quality - 2 * r
            /\ geo.new_h2 <= quality - 2 * r

\* C4 (amended): side by side, both resized heights are at most
\* canvasSize - 2 * paddingPx with paddingPx the padding truncated to whole
\* pixels, int(canvasSize * paddingRatio).
C4_HeightsWithinTruncatedPadding ==
    (Computed /\ SideBySide /\ PositiveSources) =>
        LET truncated == (quality * outer_padding_ratio) \div 100
        IN  /\ geo.new_h1 <= quality - 2 * truncated
            /\ geo.new_h2 <= quality - 2 * truncated

C4_Witness ==
    /\ status = "ok" /\ SideBySide
    /\ (quality * outer_padding_ratio) \div 100 >= 1
    /\ geo.new_h1 = quality - 2 * ((quality * outer_padding_ratio) \div 100)
    /\ geo.new_h2 < geo.new_h1

\* C5: side by side, image 1 ends at or before image 2 begins, and the
\* distance between the two boxes is within 1 px of round(canvasSize * gapRatio),
\* under either tie rule of round.
C5_SideBySideGap ==
    (Computed /\ SideBySide /\ PositiveSources) =>
        /\ geo.x1 + geo.new_w1 <= geo.x2
        /\ \A r \in Roundings(quality * gap_ratio, 100) :
               Abs(geo.x2 - (geo.x1 + geo.new_w1) - r) <= 1

C5_Witness ==
    /\ status = "ok" /\ SideBySide
    /\ geo.x2 - (geo.x1 + geo.new_w1) = 3
    /\ RoundHalfUp(quality * gap_ratio, 100) = 4

\* C6: overlay (equal), each image's pasted rectangle stays inside the padded
\* area on both axes.
C6_OverlayEqualInsidePadding ==
    (Computed /\ OverlayEqual /\ PositiveSources) =>
        /\ geo.padding_px <= geo.x1
        /\ geo.x1 + geo.new_w1 <= quality - geo.padding_px
        /\ geo.padding_px <= geo.y1
        /\ geo.y1 + geo.new_h1 <= quality - geo.padding_px
        /\ geo.padding_px <= geo.x2
        /\ geo.x2 + geo.new_w2 <= quality - geo.padding_px
        /\ geo.padding_px <= geo.y2
        /\ geo.y2 + geo.new_h2 <= quality - geo.padding_px

\* Padding and offset at work, image 1 against the left padding and both
\* images as wide as the offset allows.
C6_Witness ==
    /\ status = "ok" /\ OverlayEqual
    /\ geo.padding_px >= 1 /\ geo.offset_px >= 2
    /\ geo.x1 = geo.padding_px
    /\ geo.new_w2 = geo.inner_width - geo.offset_px
    /\ geo.new_h2 < geo.new_h1

\* The rasters pasted first and second by the overlay layout that returned.
BackRaster ==
    IF OverlayHero THEN resize(geo.hero, geo.new_w_h, geo.new_h_h)
    ELSE resize(img1, geo.new_w1, geo.new_h1)
FrontRaster ==
    IF OverlayHero THEN resize(geo.secondary, geo.new_w_s, geo.new_h_s)
    ELSE resize(img2, geo.new_w2, geo.new_h2)
BackAt == IF OverlayHero THEN <<geo.x_h, geo.y_h>> ELSE <<geo.x1, geo.y1>>
FrontAt == IF OverlayHero THEN <<geo.x_s, geo.y_s>> ELSE <<geo.x2, geo.y2>>
\* The alpha of the raster pasted at `at` over canvas pixel p; -1 where it
\* does not cover p.
AlphaOver(img, at, p) ==
    IF Covered(p, img.size, at[1], at[2])
    THEN Alpha(img, p[1] - at[1], p[2] - at[2])
    ELSE -1
\* The front layer: the second input, or in the hero layout the input that is
\* not the hero.
FrontInput ==
    IF OverlayHero THEN (IF hero_choice = "Image 1" THEN img2 ELSE img1)
    ELSE img2

\* C7: in both overlay layouts the front layer is pasted last: where fully
\* opaque pixels of both resized images cover a canvas pixel, the canvas shows
\* the front layer's colour; the hero is img1 exactly when hero_is_first.
C7_FrontLayerOnTop ==
    (status = "ok" /\ (OverlayEqual \/ OverlayHero)) =>
        /\ OverlayHero =>
              geo.hero = (IF hero_choice = "Image 1" THEN img1 ELSE img2)
        /\ \A p \in Pixels(quality) :
              (AlphaOver(BackRaster, BackAt, p) = 255
                  /\ AlphaOver(FrontRaster, FrontAt, p) = 255) =>
                 SubSeq(result.px[p], 1, 3) = FrontInput.colour

C7_Witness ==
    /\ status = "ok" /\ OverlayHero /\ hero_choice = "Image 2"
    /\ img1.mask = "leftclear" /\ img2.mask = "leftclear"
    /\ \E p \in Pixels(quality) :
          /\ AlphaOver(BackRaster, BackAt, p) = 255
          /\ AlphaOver(FrontRaster, FrontAt, p) = 255
          /\ SubSeq(result.px[p], 1, 3) = RED
    /\ \E p \in Pixels(quality) :
          /\ AlphaOver(BackRaster, BackAt, p) = 255
          /\ AlphaOver(FrontRaster, FrontAt, p) = -1
          /\ SubSeq(result.px[p], 1, 3) = BLUE

\* The four target sizes handed to Image.resize by the layout that ran.
TargetSizes ==
    IF OverlayHero
    THEN <<geo.new_w_h, geo.new_h_h, geo.new_w_s, geo.new_h_s>>
    ELSE <<geo.new_w1, geo.new_h1, geo.new_w2, geo.new_h2>>

\* C8 (as claimed): in each layout, for sources of positive size, every target
\* width and height handed to resize is at least 1 px and the layout returns a
\* canvas of canvasSize x canvasSize.
C8_ResizeTargetsAtLeastOnePixel ==
    (pc = "done" /\ PositiveSources) =>
        /\ \A i \in 1 .. 4 : TargetSizes[i] >= 1
        /\ status = "ok"
        /\ result.size = quality

\* C9 (as claimed): in each layout no scale computation divides by zero,
\* whatever source dimension is zero.
C9_NoDivisionByZero ==
    pc = "done" => status # "ZeroDivisionError"

\* C10 (as claimed): in the overlay layouts, pasting the front image leaves
\* unchanged every canvas pixel that lies under a front pixel of alpha 0, for
\* every background mode.
C10_TransparentPixelsLeaveCanvas ==
    (status = "ok" /\ (OverlayEqual \/ OverlayHero)) =>
        LET before == paste_with_alpha(make_canvas(bg_mode, quality),
                                       BackRaster, BackAt[1], BackAt[2])
        IN  \A p \in Pixels(quality) :
               AlphaOver(FrontRaster, FrontAt, p) = 0 =>
                   result.px[p] = before.px[p]

====
